---- MODULE Spec2Model ----
(***************************************************************************)
(* Model of the sample-entropy tool: the batch driver of main.rs (read,    *)
(* parallel map, collect, write), the per-subject aggregator, and the two  *)
(* implementations of the estimator (main.rs and stats.rs) with their f32  *)
(* arithmetic.                                                             *)
(***************************************************************************)
EXTENDS Integers, Sequences, FiniteSets, TLC

(***************************************************************************)
(* f32 arithmetic.  A value is NaN, an infinity, or sign * m * 2^e with m  *)
(* odd (or m = 0, e = 0): the dyadic rational the f32 holds.  Every        *)
(* operation computes the exact result and rounds it to 24 significant     *)
(* bits, ties to even, with gradual underflow and overflow to infinity.    *)
(***************************************************************************)
MantBits == 24
MinExp == -149
OverflowExp == 128

Pow2(n) == 2 ^ n

RECURSIVE BitLen(_)
BitLen(m) == IF m = 0 THEN 0 ELSE 1 + BitLen(m \div 2)

NaN == [k |-> "nan", s |-> 1, m |-> 0, e |-> 0]
Inf(s) == [k |-> "inf", s |-> s, m |-> 0, e |-> 0]
Zero(s) == [k |-> "fin", s |-> s, m |-> 0, e |-> 0]

RECURSIVE Canon(_, _, _)
Canon(s, m, e) ==
    IF m = 0 THEN Zero(s)
    ELSE IF m % 2 = 0 THEN Canon(s, m \div 2, e + 1)
    ELSE [k |-> "fin", s |-> s, m |-> m, e |-> e]

IsNaN(x) == x.k = "nan"
IsInf(x) == x.k = "inf"
IsFinite(x) == x.k = "fin"
IsZero(x) == x.k = "fin" /\ x.m = 0

\* The finite value m * 2^e, or the infinity it overflows to.
Pack(s, m, e) ==
    IF m = 0 THEN Zero(s)
    ELSE IF BitLen(m) + e > OverflowExp THEN Inf(s)
    ELSE Canon(s, m, e)

\* Round (M + f) * 2^E to f32, where 0 < f < 1 when st = 1 and f = 0 when
\* st = 0.  M < 2^31; callers pass st = 1 only with M of 26 bits or more.
RoundPack(s, M, E, st) ==
    LET n == BitLen(M)
        sh == IF n - MantBits >= MinExp - E THEN n - MantBits ELSE MinExp - E
    IN  IF M = 0 THEN Zero(s)
        ELSE IF sh <= 0 THEN Pack(s, M, E)
        ELSE IF sh > n THEN Zero(s)
        ELSE LET d == Pow2(sh)
                 q == M \div d
                 rem == M % d
                 half == d \div 2
                 up == rem > half \/ (rem = half /\ (st = 1 \/ q % 2 = 1))
             IN  Pack(s, IF up THEN q + 1 ELSE q, E + sh)

\* A finite nonzero value with its mantissa shifted to exactly 24 bits.
Norm(x) ==
    LET up == MantBits - BitLen(x.m)
    IN  [s |-> x.s, m |-> x.m * Pow2(up), e |-> x.e - up]

FNeg(x) == IF IsNaN(x) THEN NaN ELSE [x EXCEPT !.s = -x.s]
FAbs(x) == IF IsNaN(x) THEN NaN ELSE [x EXCEPT !.s = 1]

AddFin(a, b) ==
    LET na == Norm(a)
        nb == Norm(b)
        hi == IF na.e >= nb.e THEN na ELSE nb
        lo == IF na.e >= nb.e THEN nb ELSE na
        d == hi.e - lo.e
    IN  IF d <= 6
        THEN LET sum == hi.s * hi.m * Pow2(d) + lo.s * lo.m
             IN  IF sum = 0 THEN Zero(1)
                 ELSE IF sum > 0 THEN RoundPack(1, sum, lo.e, 0)
                 ELSE RoundPack(-1, -sum, lo.e, 0)
        ELSE LET t == d - 6
                 big == hi.m * 64
                 small == IF t > MantBits THEN 0 ELSE lo.m \div Pow2(t)
                 st == IF t > MantBits THEN 1
                       ELSE IF lo.m % Pow2(t) # 0 THEN 1 ELSE 0
             IN  IF hi.s = lo.s THEN RoundPack(hi.s, big + small, hi.e - 6, st)
                 ELSE IF st = 0 THEN RoundPack(hi.s, big - small, hi.e - 6, 0)
                 ELSE RoundPack(hi.s, big - small - 1, hi.e - 6, 1)

FAdd(a, b) ==
    IF IsNaN(a) \/ IsNaN(b) THEN NaN
    ELSE IF IsInf(a) /\ IsInf(b) THEN (IF a.s = b.s THEN a ELSE NaN)
    ELSE IF IsInf(a) THEN a
    ELSE IF IsInf(b) THEN b
    ELSE IF IsZero(a) /\ IsZero(b) THEN (IF a.s = b.s THEN a ELSE Zero(1))
    ELSE IF IsZero(a) THEN b
    ELSE IF IsZero(b) THEN a
    ELSE AddFin(a, b)

FSub(a, b) == FAdd(a, FNeg(b))

MulFin(a, b) ==
    LET na == Norm(a)
        nb == Norm(b)
        a1 == na.m \div 4096
        a0 == na.m % 4096
        b1 == nb.m \div 4096
        b0 == nb.m % 4096
        mid == a1 * b0 + a0 * b1
        t == (mid % 4096) * 4096 + a0 * b0
        L == t % Pow2(24)
        H == a1 * b1 + (mid \div 4096) + (t \div Pow2(24))
    IN  RoundPack(a.s * b.s, H * 64 + (L \div Pow2(18)), na.e + nb.e + 18,
                  IF L % Pow2(18) # 0 THEN 1 ELSE 0)

FMul(a, b) ==
    IF IsNaN(a) \/ IsNaN(b) THEN NaN
    ELSE IF IsInf(a) \/ IsInf(b)
         THEN (IF IsZero(a) \/ IsZero(b) THEN NaN ELSE Inf(a.s * b.s))
    ELSE IF IsZero(a) \/ IsZero(b) THEN Zero(a.s * b.s)
    ELSE MulFin(a, b)

\* n more quotient bits of (rem / dv), rem < dv.
RECURSIVE DivBits(_, _, _, _)
DivBits(q, rem, dv, n) ==
    IF n = 0 THEN <<q, rem>>
    ELSE IF 2 * rem >= dv THEN DivBits(2 * q + 1, 2 * rem - dv, dv, n - 1)
    ELSE DivBits(2 * q, 2 * rem, dv, n - 1)

DivFin(a, b) ==
    LET na == Norm(a)
        nb == Norm(b)
        qr == DivBits(na.m \div nb.m, na.m % nb.m, nb.m, 27)
    IN  RoundPack(a.s * b.s, qr[1], na.e - nb.e - 27, IF qr[2] # 0 THEN 1 ELSE 0)

FDiv(a, b) ==
    IF IsNaN(a) \/ IsNaN(b) THEN NaN
    ELSE IF IsInf(a) THEN (IF IsInf(b) THEN NaN ELSE Inf(a.s * b.s))
    ELSE IF IsInf(b) THEN Zero(a.s * b.s)
    ELSE IF IsZero(b) THEN (IF IsZero(a) THEN NaN ELSE Inf(a.s * b.s))
    ELSE IF IsZero(a) THEN Zero(a.s * b.s)
    ELSE DivFin(a, b)

\* Digit-by-digit square root: the radicand's bit pairs from the top, first
\* the np pairs of v, then nz pairs of zeros.
RECURSIVE SqrtBits(_, _, _, _, _)
SqrtBits(root, rem, v, np, nz) ==
    IF np = 0 /\ nz = 0 THEN <<root, rem>>
    ELSE LET pair == IF np > 0 THEN (v \div Pow2(2 * (np - 1))) % 4 ELSE 0
             r2 == 4 * rem + pair
             trial == 4 * root + 1
         IN  IF r2 >= trial
             THEN SqrtBits(2 * root + 1, r2 - trial, v,
                           IF np > 0 THEN np - 1 ELSE 0,
                           IF np > 0 THEN nz ELSE nz - 1)
             ELSE SqrtBits(2 * root, r2, v,
                           IF np > 0 THEN np - 1 ELSE 0,
                           IF np > 0 THEN nz ELSE nz - 1)

SqrtFin(a) ==
    LET na == Norm(a)
        odd == na.e % 2 # 0
        v == IF odd THEN 2 * na.m ELSE na.m
        ev == IF odd THEN na.e - 1 ELSE na.e
        rr == SqrtBits(0, 0, v, 13, 14)
    IN  RoundPack(1, rr[1], (ev - 28) \div 2, IF rr[2] # 0 THEN 1 ELSE 0)

FSqrt(a) ==
    IF IsNaN(a) THEN NaN
    ELSE IF IsZero(a) THEN a
    ELSE IF a.s = -1 THEN NaN
    ELSE IF IsInf(a) THEN a
    ELSE SqrtFin(a)

\* -1, 0, 1 as a < b, a = b, a > b; neither is NaN.
CmpMag(a, b) ==
    LET na == Norm(a)
        nb == Norm(b)
    IN  IF na.e # nb.e THEN (IF na.e < nb.e THEN -1 ELSE 1)
        ELSE IF na.m # nb.m THEN (IF na.m < nb.m THEN -1 ELSE 1)
        ELSE 0

Rank(x) == IF IsZero(x) THEN 0 ELSE x.s

Cmp(a, b) ==
    IF Rank(a) # Rank(b) THEN (IF Rank(a) < Rank(b) THEN -1 ELSE 1)
    ELSE IF Rank(a) = 0 THEN 0
    ELSE IF IsInf(a) \/ IsInf(b)
         THEN (IF IsInf(a) /\ IsInf(b) THEN 0
               ELSE IF IsInf(a) THEN a.s ELSE -b.s)
    ELSE a.s * CmpMag(a, b)

FLt(a, b) == ~IsNaN(a) /\ ~IsNaN(b) /\ Cmp(a, b) < 0
FGe(a, b) == ~IsNaN(a) /\ ~IsNaN(b) /\ Cmp(a, b) >= 0
FEq(a, b) == ~IsNaN(a) /\ ~IsNaN(b) /\ Cmp(a, b) = 0

\* usize as f32 / u32 as f32
FromInt(n) == RoundPack(1, n, 0, 0)

F(n) == IF n >= 0 THEN FromInt(n) ELSE FNeg(FromInt(-n))

\* The literal 0.2 of compute_sampen_for_wave, as the f32 nearest to it.
F32_0_2 == [k |-> "fin", s |-> 1, m |-> 13421773, e |-> -26]

\* -(ratio).ln().  The logarithm of a finite positive ratio other than 1 is
\* kept symbolic, as the value -ln(m * 2^e).
NegLn(ratio) ==
    IF IsNaN(ratio) THEN NaN
    ELSE IF IsZero(ratio) THEN Inf(1)
    ELSE IF ratio.s = -1 THEN NaN
    ELSE IF IsInf(ratio) THEN Inf(-1)
    ELSE IF ratio.m = 1 /\ ratio.e = 0 THEN Zero(-1)
    ELSE [k |-> "negln", s |-> 1, m |-> ratio.m, e |-> ratio.e]

(***************************************************************************)
(* The estimator of main.rs.                                               *)
(***************************************************************************)
\* Faulty variant: the loop stops one window early (m..data.len()).
Main_construct_templates_short(m, data) ==
    LET iters == IF m > Len(data) THEN 0 ELSE Len(data) - m
    IN  [n \in 1..iters |-> [t \in 1..m |-> data[n + t - 1]]]

Main_construct_templates(m, data) ==
    LET iters == IF m > Len(data) THEN 0 ELSE Len(data) + 1 - m
    IN  [n \in 1..iters |-> [t \in 1..m |-> data[n + t - 1]]]

Main_is_match(vec_1, vec_2, r) ==
    ~\E i \in 1..Len(vec_1) : FGe(FAbs(FSub(vec_1[i], vec_2[i])), r)

\* matches*2 in u32: fewer than 2^31 pairs at every size the model reaches.
Main_get_matches(templates, r) ==
    LET n == Len(templates)
        matches == Cardinality({p \in (1..n) \X (1..n) :
                       p[1] < p[2] /\ Main_is_match(templates[p[1]], templates[p[2]], r)})
    IN  matches * 2

\* Faulty variant: the two match counts are taken from the wrong template sets.
Main_sample_entropy_swapped(m, r, data) ==
    LET templates_size_m == Main_construct_templates(m, data)
        templates_size_m_plus_1 == Main_construct_templates(m + 1, data)
        length_m_template_matches == Main_get_matches(templates_size_m_plus_1, r)
        length_m_plus_1_template_matches == Main_get_matches(templates_size_m, r)
        ratio == FDiv(FromInt(length_m_plus_1_template_matches),
                      FromInt(length_m_template_matches))
    IN  [outcome |-> "value",
         templates_size_m |-> templates_size_m,
         templates_size_m_plus_1 |-> templates_size_m_plus_1,
         length_m_template_matches |-> length_m_template_matches,
         length_m_plus_1_template_matches |-> length_m_plus_1_template_matches,
         sampen |-> NegLn(ratio)]

Main_sample_entropy_locals(m, r, data) ==
    LET templates_size_m == Main_construct_templates(m, data)
        templates_size_m_plus_1 == Main_construct_templates(m + 1, data)
        length_m_template_matches == Main_get_matches(templates_size_m, r)
        length_m_plus_1_template_matches == Main_get_matches(templates_size_m_plus_1, r)
        ratio == FDiv(FromInt(length_m_plus_1_template_matches),
                      FromInt(length_m_template_matches))
    IN  [outcome |-> "value",
         templates_size_m |-> templates_size_m,
         templates_size_m_plus_1 |-> templates_size_m_plus_1,
         length_m_template_matches |-> length_m_template_matches,
         length_m_plus_1_template_matches |-> length_m_plus_1_template_matches,
         sampen |-> NegLn(ratio)]

Main_sample_entropy(m, r, data) == Main_sample_entropy_locals(m, r, data).sampen

(***************************************************************************)
(* The estimator of stats.rs.  len - window_size + 1 is usize arithmetic:  *)
(* with overflow checks (a debug build) a window longer than the data      *)
(* panics; without them (a release build) the count wraps, to 0 when       *)
(* window_size = len + 1 and otherwise to a huge count whose first slice   *)
(* ts_data[0..window_size] is out of range.                                *)
(***************************************************************************)
Stats_construct_templates(window_size, ts_data, bld) ==
    IF window_size > Len(ts_data) /\ bld = "debug"
    THEN [panic |-> TRUE, val |-> <<>>]
    ELSE IF window_size > Len(ts_data) + 1
    THEN [panic |-> TRUE, val |-> <<>>]
    ELSE [panic |-> FALSE,
          val |-> [x \in 1..(Len(ts_data) - window_size + 1) |->
                      SubSeq(ts_data, x, x + window_size - 1)]]

Stats_is_match(vec_1, vec_2, r) ==
    \A i \in 1..Len(vec_1) : FLt(FAbs(FSub(vec_1[i], vec_2[i])), r)

Stats_get_matches(templates, threshold) ==
    LET n == Len(templates)
        combinations == {p \in (1..n) \X (1..n) : p[1] < p[2]}
    IN  Cardinality({p \in combinations :
            Stats_is_match(templates[p[1]], templates[p[2]], threshold)}) * 2

Stats_sample_entropy_locals(m, r, data, bld) ==
    LET tm == Stats_construct_templates(m, data, bld)
        tm1 == Stats_construct_templates(m + 1, data, bld)
        length_m_template_matches == Stats_get_matches(tm.val, r)
        length_m_plus_1_template_matches == Stats_get_matches(tm1.val, r)
        ratio == FDiv(FromInt(length_m_plus_1_template_matches),
                      FromInt(length_m_template_matches))
    IN  IF tm.panic
        THEN [outcome |-> "panic", built |-> 0,
              templates_size_m |-> <<>>, templates_size_m_plus_1 |-> <<>>,
              length_m_template_matches |-> 0,
              length_m_plus_1_template_matches |-> 0, sampen |-> NaN]
        ELSE IF tm1.panic
        THEN [outcome |-> "panic", built |-> 1,
              templates_size_m |-> tm.val, templates_size_m_plus_1 |-> <<>>,
              length_m_template_matches |-> 0,
              length_m_plus_1_template_matches |-> 0, sampen |-> NaN]
        ELSE [outcome |-> "value", built |-> 2,
              templates_size_m |-> tm.val, templates_size_m_plus_1 |-> tm1.val,
              length_m_template_matches |-> length_m_template_matches,
              length_m_plus_1_template_matches |-> length_m_plus_1_template_matches,
              sampen |-> NegLn(ratio)]

(***************************************************************************)
(* mean, standard_deviation, detrend_data (the same code in both files).   *)
(***************************************************************************)
RECURSIVE FSumFrom(_, _, _)
FSumFrom(acc, xs, i) ==
    IF i > Len(xs) THEN acc ELSE FSumFrom(FAdd(acc, xs[i]), xs, i + 1)

\* iter().sum::<f32>(): a left fold from 0.0
FSum(xs) == FSumFrom(Zero(1), xs, 1)

mean(data) == FDiv(FSum(data), FromInt(Len(data)))

\* powf(2.0) is taken as the correctly rounded square.
Powf2(x) == FMul(x, x)

\* (x - xbar).powf(2.0) of every element, summed, over len, square root
deviation_from(data, xbar) ==
    FSqrt(FDiv(FSum([i \in 1..Len(data) |-> Powf2(FSub(data[i], xbar))]),
               FromInt(Len(data))))

standard_deviation(data) == deviation_from(data, mean(data))

\* (*x as f32) + 1.0 of the enumerate() index x, 0-based: position i of the
\* sequence is x = i - 1
XOf(i) == FAdd(FromInt(i - 1), F(1))

\* the block of let beta_hat: numerator / denominator
beta_hat_of(data, xbar, ybar) ==
    FDiv(FSum([i \in 1..Len(data) |->
                  FMul(FSub(XOf(i), xbar), FSub(data[i], ybar))]),
         FSum([i \in 1..Len(data) |-> Powf2(FSub(XOf(i), xbar))]))

\* the block of let detrended_data
detrended_data_of(data, alpha_hat, beta_hat) ==
    [i \in 1..Len(data) |->
        FSub(FSub(data[i], alpha_hat), FMul(beta_hat, XOf(i)))]

\* let alpha_hat = &ybar - &beta_hat*&xbar, and what follows it
detrend_with_slope(data, xbar, ybar, beta_hat) ==
    detrended_data_of(data, FSub(ybar, FMul(beta_hat, xbar)), beta_hat)

detrend_with_means(data, xbar, ybar) ==
    detrend_with_slope(data, xbar, ybar, beta_hat_of(data, xbar, ybar))

detrend_data(data) ==
    detrend_with_means(data, FDiv(FAdd(FromInt(Len(data)), F(1)), F(2)), mean(data))

compute_sampen_for_wave(m, data) ==
    LET stdev == standard_deviation(data)
        r == FMul(stdev, F32_0_2)
    IN  Main_sample_entropy(m, r, data)

(***************************************************************************)
(* The aggregator and the driver of main.rs.                               *)
(***************************************************************************)
M == 2

\* Faulty variant: the tolerance of every channel is taken from the sbp channel.
ChannelSampen_shared_r(m, vitalf, ch) ==
    Main_sample_entropy(m, FMul(standard_deviation(detrend_data(vitalf.sbp)), F32_0_2),
                        detrend_data(vitalf[ch]))

\* compute_sampen_for_wave(m, detrend_data(vitalf.<ch>.clone()))
ChannelSampen(m, vitalf, ch) == compute_sampen_for_wave(m, detrend_data(vitalf[ch]))

compute_sampen_for_vital_file(m, vitalf) ==
    [name |-> vitalf.name,
     sbp_sampen |-> ChannelSampen(m, vitalf, "sbp"),
     mbp_sampen |-> ChannelSampen(m, vitalf, "mbp"),
     dbp_sampen |-> ChannelSampen(m, vitalf, "dbp")]

\* f32::to_string: the decimal text of a finite value is kept symbolic.
to_string(x) ==
    [text |-> IF x.k = "nan" THEN "NaN"
              ELSE IF x.k = "inf" THEN (IF x.s = 1 THEN "inf" ELSE "-inf")
              ELSE "decimal",
     of |-> x]

vital_entropy_to_csv_line(ve) ==
    <<[text |-> ve.name, of |-> NaN], to_string(ve.sbp_sampen),
      to_string(ve.mbp_sampen), to_string(ve.dbp_sampen)>>

\* read_csv: Err when the file cannot be opened or a field does not parse
\* (the ? operators), a panic on record_names[0] when there is no record.
\* Columns are name, mbp, sbp, dbp.
read_csv(file) ==
    IF ~file.readable THEN [result |-> "Err"]
    ELSE IF \E i \in 1..Len(file.rows) :
                ~file.rows[i].mbp.ok \/ ~file.rows[i].sbp.ok \/ ~file.rows[i].dbp.ok
    THEN [result |-> "Err"]
    ELSE IF file.rows = <<>> THEN [result |-> "panic"]
    ELSE [result |-> "Ok",
          name |-> file.rows[1].name,
          sbp |-> [i \in 1..Len(file.rows) |-> file.rows[i].sbp.val],
          mbp |-> [i \in 1..Len(file.rows) |-> file.rows[i].mbp.val],
          dbp |-> [i \in 1..Len(file.rows) |-> file.rows[i].dbp.val]]

\* Faulty variant: the task's binding is one variable shared by every task.
StoreLocal_shared(locals, t, field, val) ==
    [u \in DOMAIN locals |-> [locals[u] EXCEPT ![field] = val]]

\* let <field>: f32 = ...; a binding of the closure call of task t
StoreLocal(locals, t, field, val) == [locals EXCEPT ![t][field] = val]

(***************************************************************************)
(* State.  The e_ variables hold one call of sample_entropy in each file   *)
(* on the same arguments, the d_ variables one call of detrend_data, the   *)
(* rest the run of main().                                                 *)
(***************************************************************************)
VARIABLES e_data, e_m, e_r, build, e_pc, main_res, stats_res,
          d_data, d_pc, d_out,
          csv_files, vital_files, pc, task_pc, task_local,
          sample_entropies, entropy_csv

e_vars == <<e_data, e_m, e_r, build, e_pc, main_res, stats_res>>
d_vars == <<d_data, d_pc, d_out>>
b_vars == <<csv_files, vital_files, pc, task_pc, task_local,
            sample_entropies, entropy_csv>>
vars == <<e_vars, d_vars, b_vars>>

\* Bounds of the inputs.
MaxLen == 4
MaxM == 2
MaxDetrendLen == 3
NumFiles == 2

RECURSIVE SeqsUpTo(_, _)
SeqsUpTo(S, n) ==
    IF n = 0 THEN {<<>>}
    ELSE LET shorter == SeqsUpTo(S, n - 1)
         IN  shorter \cup {Append(q, x) : q \in {t \in shorter : Len(t) = n - 1}, x \in S}

SampleVals == {F(0), F(1), F(2), NaN}
TolVals == {F(0), F(1), F(2), NaN}
Builds == {"debug", "release"}

NoRes == [outcome |-> "none"]

EIdle ==
    /\ e_data = <<>> /\ e_m = 0 /\ e_r = NaN /\ build = "debug"
    /\ e_pc = "idle" /\ main_res = NoRes /\ stats_res = NoRes
DIdle == d_data = <<>> /\ d_pc = "idle" /\ d_out = <<>>
BIdle ==
    /\ csv_files = <<>> /\ vital_files = <<>> /\ pc = "idle"
    /\ task_pc = <<>> /\ task_local = <<>>
    /\ sample_entropies = <<>> /\ entropy_csv = <<>>

(***************************************************************************)
(* sample_entropy(m, r, data), in main.rs and then in stats.rs.            *)
(***************************************************************************)
EInit ==
    /\ e_data \in SeqsUpTo(SampleVals, MaxLen)
    /\ e_m \in 1..MaxM
    /\ e_r \in TolVals
    /\ build \in Builds
    /\ e_pc = "start"
    /\ main_res = NoRes
    /\ stats_res = NoRes
    /\ DIdle /\ BIdle

MainSampleEntropy ==
    /\ e_pc = "start"
    /\ main_res' = Main_sample_entropy_locals(e_m, e_r, e_data)
    /\ e_pc' = "main_done"
    /\ UNCHANGED <<e_data, e_m, e_r, build, stats_res, d_vars, b_vars>>

StatsSampleEntropy ==
    /\ e_pc = "main_done"
    /\ stats_res' = Stats_sample_entropy_locals(e_m, e_r, e_data, build)
    /\ e_pc' = "done"
    /\ UNCHANGED <<e_data, e_m, e_r, build, main_res, d_vars, b_vars>>

ENext == MainSampleEntropy \/ StatsSampleEntropy

SpecEstimator == EInit /\ [][ENext]_vars

(***************************************************************************)
(* Properties of the estimator.                                            *)
(***************************************************************************)
OrdinaryInput == ~IsNaN(e_r) /\ \A i \in 1..Len(e_data) : ~IsNaN(e_data[i])

\* Two templates match when every coordinate difference is strictly below r,
\* that is, when their Chebyshev distance is.
ChebyshevBelow(t1, t2, r) ==
    \A t \in 1..Len(t1) : FLt(FAbs(FSub(t1[t], t2[t])), r)

UnorderedMatches(templates, r) ==
    Cardinality({p \in (1..Len(templates)) \X (1..Len(templates)) :
        p[1] < p[2] /\ ChebyshevBelow(templates[p[1]], templates[p[2]], r)})

OrderedMatches(templates, r) ==
    Cardinality({p \in (1..Len(templates)) \X (1..Len(templates)) :
        p[1] # p[2] /\ ChebyshevBelow(templates[p[1]], templates[p[2]], r)})

CountsAreChebyshev(res) ==
    res.outcome = "value" =>
        /\ res.length_m_template_matches = 2 * UnorderedMatches(res.templates_size_m, e_r)
        /\ res.length_m_template_matches = OrderedMatches(res.templates_size_m, e_r)
        /\ res.length_m_plus_1_template_matches
               = 2 * UnorderedMatches(res.templates_size_m_plus_1, e_r)
        /\ res.length_m_template_matches % 2 = 0
        /\ res.length_m_plus_1_template_matches % 2 = 0

\* C1: get_matches returns the number of ordered pairs (i, j), i # j, whose
\* Chebyshev distance is strictly below r: an even number, twice the number
\* of unordered matching pairs, in main.rs and in stats.rs.
C1_MatchCountIsChebyshev ==
    e_pc = "done" => CountsAreChebyshev(main_res) /\ CountsAreChebyshev(stats_res)

WindowsOf(templates, k, data) ==
    /\ Len(templates) = Len(data) - k + 1
    /\ \A i \in 0..(Len(data) - k) : templates[i + 1] = SubSeq(data, i + 1, i + k)

\* C2: for 1 <= k <= N construct_templates returns exactly N-k+1 templates in
\* start-offset order, template i equal to waveform[i..i+k), in both files;
\* the two literal cases of the tests hold.
C2_TemplatesAreWindows ==
    /\ e_pc = "done" =>
          \A k \in {e_m, e_m + 1} :
             (1 <= k /\ k <= Len(e_data)) =>
                /\ WindowsOf(IF k = e_m THEN main_res.templates_size_m
                             ELSE main_res.templates_size_m_plus_1, k, e_data)
                /\ stats_res.built >= (IF k = e_m THEN 1 ELSE 2)
                /\ WindowsOf(IF k = e_m THEN stats_res.templates_size_m
                             ELSE stats_res.templates_size_m_plus_1, k, e_data)
    /\ \A bld \in Builds :
          /\ Main_construct_templates(1, <<F(1), F(2), F(3)>>)
                 = << <<F(1)>>, <<F(2)>>, <<F(3)>> >>
          /\ Stats_construct_templates(1, <<F(1), F(2), F(3)>>, bld).val
                 = << <<F(1)>>, <<F(2)>>, <<F(3)>> >>
          /\ Main_construct_templates(2, <<F(1), F(2), F(3), F(4), F(5)>>)
                 = << <<F(1), F(2)>>, <<F(2), F(3)>>, <<F(3), F(4)>>, <<F(4), F(5)>> >>
          /\ Stats_construct_templates(2, <<F(1), F(2), F(3), F(4), F(5)>>, bld).val
                 = << <<F(1), F(2)>>, <<F(2), F(3)>>, <<F(3), F(4)>>, <<F(4), F(5)>> >>

C2_Witness ==
    /\ e_pc = "done" /\ e_m = 2 /\ Len(e_data) = 4 /\ OrdinaryInput
    /\ Len(main_res.templates_size_m) = 3
    /\ Len(stats_res.templates_size_m_plus_1) = 2
    /\ main_res.templates_size_m[2] # main_res.templates_size_m[1]

NotNegative(sampen) ==
    \/ sampen.k = "nan"
    \/ sampen.k = "inf" /\ sampen.s = 1
    \/ sampen.k = "fin" /\ sampen.m = 0
    \/ sampen.k = "negln" /\ FLt([k |-> "fin", s |-> 1, m |-> sampen.m, e |-> sampen.e], F(1))

Monotone(res) ==
    res.outcome = "value" =>
        /\ res.length_m_plus_1_template_matches <= res.length_m_template_matches
        /\ NotNegative(res.sampen)

SignalsDegenerate(res) ==
    (res.outcome = "value" /\ (res.length_m_template_matches = 0
                               \/ res.length_m_plus_1_template_matches = 0))
        => FALSE

\* C4: with a zero match count at embedding m or m+1 sample_entropy signals
\* DegenerateMatch instead of returning a value; it never returns NaN or an
\* infinity.  Stated for waveforms long enough for the embedding (N >= m+2)
\* and free of NaN, with r not NaN.
C4_DegenerateIsSignalled ==
    (e_pc = "done" /\ Len(e_data) >= e_m + 2 /\ OrdinaryInput) =>
        /\ SignalsDegenerate(main_res) /\ SignalsDegenerate(stats_res)
        /\ main_res.sampen.k \notin {"nan", "inf"}

\* C5: a waveform too short for the embedding (N < m+2) is rejected with
\* InsufficientData: no templates are built, nothing panics, no entropy is
\* returned.
C5_ShortIsRejected ==
    (e_pc = "done" /\ Len(e_data) < e_m + 2) =>
        \A res \in {main_res, stats_res} :
            /\ res.outcome = "InsufficientData"
            /\ res.templates_size_m = <<>>
            /\ res.templates_size_m_plus_1 = <<>>

\* C10: the two files agree on every input: the same template sequences and
\* the same match counts, also for k > N, N = 0 and every r.
C10_ImplementationsAgree ==
    e_pc = "done" =>
        /\ stats_res.outcome = main_res.outcome
        /\ stats_res.templates_size_m = main_res.templates_size_m
        /\ stats_res.templates_size_m_plus_1 = main_res.templates_size_m_plus_1
        /\ stats_res.length_m_template_matches = main_res.length_m_template_matches
        /\ stats_res.length_m_plus_1_template_matches
               = main_res.length_m_plus_1_template_matches

\* Where the two files do agree: no NaN among the samples and r, and both
\* windows within the waveform.
AgreeOnOrdinaryInputs ==
    (e_pc = "done" /\ OrdinaryInput /\ e_m + 1 <= Len(e_data))
    => /\ C10_ImplementationsAgree
       /\ C1_MatchCountIsChebyshev

(***************************************************************************)
(* detrend_data(data) on its own.  120.7 and 0.1 are the f32 nearest to    *)
(* them.                                                                   *)
(***************************************************************************)
F32_120_7 == [k |-> "fin", s |-> 1, m |-> 7910195, e |-> -16]
F32_0_1 == [k |-> "fin", s |-> 1, m |-> 13421773, e |-> -27]

DetrendVals == {F(5), F(7), F32_120_7, F32_0_1}

DInit ==
    /\ d_data \in SeqsUpTo(DetrendVals, MaxDetrendLen)
    /\ d_pc = "start"
    /\ d_out = <<>>
    /\ EIdle /\ BIdle

DetrendData ==
    /\ d_pc = "start"
    /\ d_out' = detrend_data(d_data)
    /\ d_pc' = "done"
    /\ UNCHANGED <<d_data, e_vars, b_vars>>

DNext == DetrendData

SpecDetrend == DInit /\ [][DNext]_vars

IsConstant(data) == \A i \in 1..Len(data) : data[i] = data[1]

\* C9: a constant waveform of length N >= 2 detrends to a waveform of the
\* same length N whose samples are all zero.
C9_ConstantDetrendsToZero ==
    (d_pc = "done" /\ Len(d_data) >= 2 /\ IsConstant(d_data)) =>
        /\ Len(d_out) = Len(d_data)
        /\ \A i \in 1..Len(d_out) : IsZero(d_out[i])

\* The same for a constant whose running sums c, 2c, ..., Nc are all f32
\* values (small integers): there the mean is c exactly.
ConstantSmallIntegerDetrendsToZero ==
    (d_pc = "done" /\ Len(d_data) >= 2 /\ IsConstant(d_data)
        /\ d_data[1] \in {F(5), F(7)}) =>
        /\ Len(d_out) = Len(d_data)
        /\ \A i \in 1..Len(d_out) : IsZero(d_out[i])

(***************************************************************************)
(* main(): the files are read in turn, one task per VitalFile computes its *)
(* three entropies, the results are collected in input order and written.  *)
(***************************************************************************)
Names == <<"s1", "s2", "s3", "s4">>

WaveA == <<F(0), F(10), F(0), F(10), F(0)>>
WaveB == <<F(0), F(0), F(10), F(0), F(0)>>
WaveC == <<F(5), F(5), F(5), F(5), F(5)>>

Parsed(x) == [ok |-> TRUE, val |-> x]
Unparsed == [ok |-> FALSE, val |-> NaN]

CsvOf(name, sbp, mbp, dbp) ==
    [readable |-> TRUE,
     rows |-> [i \in 1..Len(sbp) |->
                  [name |-> name, mbp |-> Parsed(mbp[i]),
                   sbp |-> Parsed(sbp[i]), dbp |-> Parsed(dbp[i])]]]

CsvChoices(name) ==
    { CsvOf(name, WaveA, WaveB, WaveC),
      CsvOf(name, WaveA, WaveC, WaveB),
      CsvOf(name, WaveC, WaveB, WaveC),
      [readable |-> TRUE,
       rows |-> <<[name |-> name, mbp |-> Parsed(F(1)),
                   sbp |-> Unparsed, dbp |-> Parsed(F(2))]>>],
      [readable |-> TRUE, rows |-> <<>>],
      [readable |-> FALSE, rows |-> <<>>] }

Unset == [k |-> "unset", s |-> 1, m |-> 0, e |-> 0]
NoLocals == [name |-> "", sbp_sampen |-> Unset, mbp_sampen |-> Unset, dbp_sampen |-> Unset]

BInit ==
    /\ csv_files \in [1..NumFiles -> UNION {CsvChoices(Names[i]) : i \in 1..NumFiles}]
    /\ \A i \in 1..NumFiles : csv_files[i] \in CsvChoices(Names[i])
    /\ vital_files = <<>>
    /\ pc = "reading"
    /\ task_pc = <<>>
    /\ task_local = <<>>
    /\ sample_entropies = <<>>
    /\ entropy_csv = <<>>
    /\ EIdle /\ DIdle

NextFile == Len(vital_files) + 1

ReadFile ==
    /\ pc = "reading"
    /\ NextFile <= NumFiles
    /\ LET vital_file == read_csv(csv_files[NextFile])
       IN  /\ vital_file.result = "Ok"
           /\ vital_files' = Append(vital_files,
                  [name |-> vital_file.name, sbp |-> vital_file.sbp,
                   mbp |-> vital_file.mbp, dbp |-> vital_file.dbp])
    /\ UNCHANGED <<csv_files, pc, task_pc, task_local, sample_entropies,
                   entropy_csv, e_vars, d_vars>>

\* panic!("Problem opening the csv file"), or the panic inside read_csv
ReadFilePanics ==
    /\ pc = "reading"
    /\ NextFile <= NumFiles
    /\ read_csv(csv_files[NextFile]).result # "Ok"
    /\ pc' = "panicked"
    /\ UNCHANGED <<csv_files, vital_files, task_pc, task_local, sample_entropies,
                   entropy_csv, e_vars, d_vars>>

StartPar ==
    /\ pc = "reading"
    /\ NextFile > NumFiles
    /\ pc' = "computing"
    /\ task_pc' = [t \in 1..Len(vital_files) |-> "sbp"]
    /\ task_local' = [t \in 1..Len(vital_files) |-> NoLocals]
    /\ UNCHANGED <<csv_files, vital_files, sample_entropies, entropy_csv,
                   e_vars, d_vars>>

TaskChannel(t, ch, field, next) ==
    /\ pc = "computing"
    /\ task_pc[t] = ch
    /\ task_local' = StoreLocal(task_local, t, field, ChannelSampen(M, vital_files[t], ch))
    /\ task_pc' = [task_pc EXCEPT ![t] = next]
    /\ UNCHANGED <<csv_files, vital_files, pc, sample_entropies, entropy_csv,
                   e_vars, d_vars>>

TaskSbp == \E t \in DOMAIN task_pc : TaskChannel(t, "sbp", "sbp_sampen", "mbp")
TaskMbp == \E t \in DOMAIN task_pc : TaskChannel(t, "mbp", "mbp_sampen", "dbp")
TaskDbp == \E t \in DOMAIN task_pc : TaskChannel(t, "dbp", "dbp_sampen", "ret")

TaskReturn ==
    \E t \in DOMAIN task_pc :
        /\ pc = "computing"
        /\ task_pc[t] = "ret"
        /\ task_local' = StoreLocal(task_local, t, "name", vital_files[t].name)
        /\ task_pc' = [task_pc EXCEPT ![t] = "done"]
        /\ UNCHANGED <<csv_files, vital_files, pc, sample_entropies, entropy_csv,
                       e_vars, d_vars>>

\* collect::<Vec<VitalEntropies>>() of an indexed parallel iterator: the
\* results in the order of the input.
Collect ==
    /\ pc = "computing"
    /\ \A t \in DOMAIN task_pc : task_pc[t] = "done"
    /\ sample_entropies' = [t \in 1..Len(vital_files) |-> task_local[t]]
    /\ pc' = "saving"
    /\ UNCHANGED <<csv_files, vital_files, task_pc, task_local, entropy_csv,
                   e_vars, d_vars>>

Save ==
    /\ pc = "saving"
    /\ entropy_csv' = [i \in 1..Len(sample_entropies) |->
                          vital_entropy_to_csv_line(sample_entropies[i])]
    /\ pc' = "done"
    /\ UNCHANGED <<csv_files, vital_files, task_pc, task_local, sample_entropies,
                   e_vars, d_vars>>

\* File::create(...)? fails: main returns the error, nothing is written.
SaveFails ==
    /\ pc = "saving"
    /\ pc' = "io_error"
    /\ UNCHANGED <<csv_files, vital_files, task_pc, task_local, sample_entropies,
                   entropy_csv, e_vars, d_vars>>

Init == BInit

Next ==
    \/ ReadFile \/ ReadFilePanics \/ StartPar
    \/ TaskSbp \/ TaskMbp \/ TaskDbp \/ TaskReturn
    \/ Collect \/ Save \/ SaveFails

Spec == Init /\ [][Next]_vars

(***************************************************************************)
(* Claims about the run of main().                                         *)
(***************************************************************************)
Ended == pc \in {"done", "panicked"}

Readable(i) == read_csv(csv_files[i]).result = "Ok"

InOutput(name) == \E j \in 1..Len(entropy_csv) : entropy_csv[j][1].text = name

\* C6: a failure on one subject never aborts the batch: when the run has
\* ended, every subject whose own file reads correctly has its line in the
\* output, whatever happened to the other subjects.
C6_FailureDoesNotAbort ==
    Ended => \A i \in 1..NumFiles : Readable(i) => InOutput(Names[i])

Channels == {"sbp", "mbp", "dbp"}

ChannelField(ch) ==
    CASE ch = "sbp" -> "sbp_sampen"
      [] ch = "mbp" -> "mbp_sampen"
      [] ch = "dbp" -> "dbp_sampen"

Computed(t, ch) == task_local[t][ChannelField(ch)] # Unset

\* The entropy of one waveform on its own: detrended, the tolerance 0.2 times
\* the standard deviation of the detrended waveform.
OwnEntropy(wave) ==
    LET detrended == detrend_data(wave)
    IN  Main_sample_entropy(M, FMul(standard_deviation(detrended), F32_0_2), detrended)

AsVitalFile(res) ==
    [name |-> res.name, sbp |-> res.sbp, mbp |-> res.mbp, dbp |-> res.dbp]

\* C7: every channel's entropy is that of its own waveform, detrended and
\* with the tolerance 0.2 x sigma of its own detrended data; two channels
\* holding the same waveform get the same entropy whatever the other
\* channels of their subjects hold; the VitalFile stays as it was read.
C7_ChannelsIndependent ==
    /\ \A t \in DOMAIN task_local : \A ch \in Channels :
          Computed(t, ch) =>
              task_local[t][ChannelField(ch)] = OwnEntropy(vital_files[t][ch])
    /\ \A t, u \in DOMAIN task_local : \A c1, c2 \in Channels :
          (/\ Computed(t, c1) /\ Computed(u, c2)
           /\ vital_files[t][c1] = vital_files[u][c2]) =>
              task_local[t][ChannelField(c1)] = task_local[u][ChannelField(c2)]
    /\ \A t \in DOMAIN task_local :
          vital_files[t] = AsVitalFile(read_csv(csv_files[t]))

\* Two subjects with the same sbp waveform and different mbp and dbp
\* waveforms, all six entropies computed, the shared one a finite entropy.
C7_Witness ==
    \E t, u \in DOMAIN task_local :
        /\ t # u
        /\ vital_files[t].sbp = vital_files[u].sbp
        /\ vital_files[t].mbp # vital_files[u].mbp
        /\ vital_files[t].dbp # vital_files[u].dbp
        /\ \A ch \in Channels : Computed(t, ch) /\ Computed(u, ch)
        /\ task_local[t].sbp_sampen.k = "negln"
        /\ task_local[t].sbp_sampen = task_local[u].sbp_sampen

Collected == pc \in {"saving", "done", "io_error"}

\* C8: under every interleaving of the tasks the collected result has one
\* record per VitalFile, in input order, each with the name of its subject
\* and the three entropies a sequential call of
\* compute_sampen_for_vital_file gives for that subject; a task that has
\* returned holds that record already.
C8_OneRecordPerSubject ==
    /\ \A t \in DOMAIN task_pc :
          task_pc[t] = "done" =>
              task_local[t] = compute_sampen_for_vital_file(M, vital_files[t])
    /\ Collected =>
          /\ Len(sample_entropies) = Len(vital_files)
          /\ \A i \in 1..Len(vital_files) :
                sample_entropies[i] = compute_sampen_for_vital_file(M, vital_files[i])

\* At least two subjects were computed in parallel and collected, and their
\* records differ in every field.
C8_Witness ==
    /\ Collected
    /\ Len(sample_entropies) >= 2
    /\ sample_entropies[1].name # sample_entropies[2].name
    /\ sample_entropies[1].sbp_sampen # sample_entropies[2].sbp_sampen
    /\ sample_entropies[1].mbp_sampen # sample_entropies[2].mbp_sampen
    /\ sample_entropies[1].dbp_sampen # sample_entropies[2].dbp_sampen

====
